---- MODULE Spec2Model ----
(***************************************************************************)
(* Fitness evaluation of the damped-oscillator example                     *)
(* (examples/damped_oscillator.py): AssessmentRunner.setup / measure /     *)
(* assign_fitness / rmse / trajectory and main().                          *)
(*                                                                         *)
(* Floating point numbers are modelled as fixed-point numbers with Unit    *)
(* steps per 1.0, together with NaN, +Inf and -Inf.  A finite result whose *)
(* magnitude exceeds FloatMax overflows to +/-Inf, as a float64 does.      *)
(***************************************************************************)
EXTENDS Integers, Sequences, FiniteSets, TLC

\* ------------------------------------------------------------------ bounds
Unit == 16          \* fixed-point steps per 1.0
FloatMax == 1024    \* largest finite magnitude, in steps (64.0)
GridN == 11         \* number of points of the time grid (2000 in the source)
NPeriods == 1       \* periods the time grid spans (nperiods, 50 in the source)
MaxIter == 3        \* residual evaluations the optimizer may spend (maxfev)

\* ------------------------------------------------------- float arithmetic
Fin(n) == [t |-> "fin", v |-> n]
NaN == [t |-> "nan", v |-> 0]
PInf == [t |-> "inf", v |-> 1]
NInf == [t |-> "inf", v |-> -1]

isnan(a) == a.t = "nan"
isinf(a) == a.t = "inf"
isfinite(a) == a.t = "fin"

Abs(n) == IF n < 0 THEN -n ELSE n
Sign(a) == IF a.v < 0 THEN -1 ELSE IF a.v > 0 THEN 1 ELSE 0
SignedInf(s) == IF s < 0 THEN NInf ELSE PInf
\* Division rounding toward zero, as for a magnitude.
Quot(n, d) == IF (n < 0) = (d < 0) THEN Abs(n) \div Abs(d) ELSE -(Abs(n) \div Abs(d))

\* A finite result, overflowing to an infinity beyond FloatMax.
Round(n) == IF n > FloatMax THEN PInf ELSE IF n < -FloatMax THEN NInf ELSE Fin(n)

FNeg(a) == IF isnan(a) THEN NaN ELSE [t |-> a.t, v |-> -a.v]

FAdd(a, b) ==
    IF isnan(a) \/ isnan(b) THEN NaN
    ELSE IF isinf(a) /\ isinf(b) THEN (IF a.v = b.v THEN a ELSE NaN)
    ELSE IF isinf(a) THEN a
    ELSE IF isinf(b) THEN b
    ELSE Round(a.v + b.v)

FSub(a, b) == FAdd(a, FNeg(b))

FMul(a, b) ==
    IF isnan(a) \/ isnan(b) THEN NaN
    ELSE IF isinf(a) \/ isinf(b)
         THEN (IF Sign(a) = 0 \/ Sign(b) = 0 THEN NaN ELSE SignedInf(Sign(a) * Sign(b)))
    ELSE Round(Quot(a.v * b.v, Unit))

\* numpy float64 division: x/0 is +/-Inf, 0/0 is NaN (a warning, no exception).
FDiv(a, b) ==
    IF isnan(a) \/ isnan(b) THEN NaN
    ELSE IF isinf(a) THEN (IF isinf(b) THEN NaN
                           ELSE SignedInf(IF Sign(b) < 0 THEN -Sign(a) ELSE Sign(a)))
    ELSE IF isinf(b) THEN Fin(0)
    ELSE IF b.v = 0 THEN (IF a.v = 0 THEN NaN ELSE SignedInf(Sign(a)))
    ELSE Round(Quot(a.v * Unit, b.v))

RECURSIVE SqrtSearch(_, _, _)
\* The largest r in lo..hi with r*r <= n (lo*lo <= n is given).
SqrtSearch(n, lo, hi) ==
    IF lo >= hi THEN lo
    ELSE LET mid == (lo + hi + 1) \div 2
         IN IF mid * mid <= n THEN SqrtSearch(n, mid, hi) ELSE SqrtSearch(n, lo, mid - 1)

\* numpy.sqrt: NaN for a negative argument, +Inf for +Inf.
FSqrt(a) ==
    IF isnan(a) THEN NaN
    ELSE IF isinf(a) THEN (IF a.v > 0 THEN PInf ELSE NaN)
    ELSE IF a.v < 0 THEN NaN
    ELSE Fin(SqrtSearch(a.v * Unit, 0, a.v * Unit))

\* a < b for floats; every comparison with NaN is false.
FLess(a, b) ==
    IF isnan(a) \/ isnan(b) THEN FALSE
    ELSE IF isinf(a) THEN a.v < 0 /\ ~(isinf(b) /\ b.v < 0)
    ELSE IF isinf(b) THEN b.v > 0
    ELSE a.v < b.v

Zero == Fin(0)
One == Fin(Unit)
Two == Fin(2 * Unit)
ThreeEighths == FDiv(Fin(3 * Unit), Fin(8 * Unit))

\* n / d rounded to the nearest integer.
RoundDiv(n, d) ==
    IF n >= 0 THEN (n + d \div 2) \div d ELSE -((d \div 2 - n) \div d)

\* numpy.pi.
Pi == Fin(RoundDiv(355 * Unit, 113))

\* The elementary functions are computed with Prec steps per 1.0 and rounded
\* to the nearest float.
Prec == 1024 * Unit
PiP == RoundDiv(355 * Prec, 113)
TwoPiP == RoundDiv(710 * Prec, 113)
HalfPiP == RoundDiv(355 * Prec, 226)
Ln2P == RoundDiv(69315 * Prec, 100000)
ToPrec(a) == a.v * (Prec \div Unit)
FromPrec(p) == Round(RoundDiv(p, Prec \div Unit))

RECURSIVE Pow2(_)
Pow2(m) == IF m = 0 THEN 1 ELSE 2 * Pow2(m - 1)

RECURSIVE SinSeries(_, _, _)
\* The Taylor series of sin at r, |r| <= pi/2, from the term of degree k on.
SinSeries(r, term, k) ==
    IF term = 0 THEN 0
    ELSE term + SinSeries(r, -Quot(Quot(term * r, Prec) * r, Prec * (k + 1) * (k + 2)), k + 2)

\* sin of p (in Prec steps): reduction to [-pi/2, pi/2], then the series.
SinP(p) ==
    LET r1 == p % TwoPiP
        r2 == IF r1 > PiP THEN r1 - TwoPiP ELSE r1
        r3 == IF r2 > HalfPiP THEN PiP - r2
              ELSE IF r2 < -HalfPiP THEN -PiP - r2 ELSE r2
    IN SinSeries(r3, r3, 1)

\* numpy.sin: NaN for an infinite argument.
FSin(a) == IF ~isfinite(a) THEN NaN ELSE FromPrec(SinP(ToPrec(a)))

\* numpy.cos.
FCos(a) == IF ~isfinite(a) THEN NaN ELSE FromPrec(SinP(ToPrec(a) + HalfPiP))

RECURSIVE ExpSeries(_, _, _)
\* The Taylor series of exp at r, 0 <= r < ln 2, from the term of degree k on.
ExpSeries(r, term, k) ==
    IF term = 0 THEN 0 ELSE term + ExpSeries(r, Quot(term * r, Prec * (k + 1)), k + 1)

\* numpy.exp: exp(x) = 2^m exp(r) with x = m ln 2 + r; overflows to +Inf.
FExp(a) ==
    IF isnan(a) THEN NaN
    ELSE IF isinf(a) THEN (IF a.v > 0 THEN PInf ELSE Zero)
    ELSE LET x == ToPrec(a)
             m == x \div Ln2P
             e == ExpSeries(x - m * Ln2P, Prec, 0)
         IN IF m > 15 THEN PInf
            ELSE IF m < -15 THEN Zero
            ELSE IF m >= 0 THEN FromPrec(e * Pow2(m))
            ELSE FromPrec(RoundDiv(e, Pow2(-m)))

RECURSIVE Log2Floor(_)
Log2Floor(n) == IF n < 2 THEN 0 ELSE 1 + Log2Floor(n \div 2)

RECURSIVE AtanhSeries(_, _, _)
\* z + z^3/3 + z^5/5 + ... from the power pw = z^k on.
AtanhSeries(z, pw, k) ==
    IF pw = 0 THEN 0
    ELSE Quot(pw, k) + AtanhSeries(z, Quot(Quot(pw * z, Prec) * z, Prec), k + 2)

\* ln of the positive integer n, in Prec steps: n = 2^m f, 1 <= f < 2,
\* ln f = 2 atanh((f - 1) / (f + 1)).
LnP(n) ==
    LET m == Log2Floor(n)
        z == Quot((n - Pow2(m)) * Prec, n + Pow2(m))
    IN m * Ln2P + 2 * AtanhSeries(z, z, 1)

\* numpy.log: -Inf at 0, NaN for a negative argument.
FLog(a) ==
    IF isnan(a) THEN NaN
    ELSE IF isinf(a) THEN (IF a.v > 0 THEN PInf ELSE NaN)
    ELSE IF a.v < 0 THEN NaN
    ELSE IF a.v = 0 THEN NInf
    ELSE FromPrec(LnP(a.v) - LnP(Unit))

\* ------------------------------------------------ the genotype (Individual)
\* Individual.pset: the categories, the arguments and the constants given to
\* gp.sympy_primitive_set.
PsetCategories == <<"algebraic", "trigonometric", "exponential">>
PsetArguments == <<"y_0", "y_1">>
PsetConstants == <<"c">>

\* gp.sympy_primitive_set: the primitives of each category, with their arities.
CategoryPrimitives ==
    [algebraic |-> [Add |-> 2, Sub |-> 2, Mul |-> 2, Div |-> 2, Neg |-> 1],
     trigonometric |-> [sin |-> 1, cos |-> 1],
     exponential |-> [exp |-> 1, log |-> 1]]

\* The primitives of Individual.pset: those of its categories.
PsetPrimitives ==
    LET names == UNION {DOMAIN CategoryPrimitives[PsetCategories[i]] : i \in DOMAIN PsetCategories}
    IN [n \in names |->
          CategoryPrimitives[CHOOSE cat \in DOMAIN CategoryPrimitives :
                                 n \in DOMAIN CategoryPrimitives[cat]][n]]

Range(s) == {s[i] : i \in DOMAIN s}
PsetTerminals == Range(PsetArguments) \cup Range(PsetConstants)
PsetSymbols == PsetTerminals \cup DOMAIN PsetPrimitives

\* An individual is a DEAP primitive tree (tree: its nodes in prefix order)
\* with a fitness (values) and, once assessed, the attribute popt.
\* len(individual) is its number of nodes.
len(individual) == Len(individual.tree)

IndexOf(s, e) == CHOOSE i \in DOMAIN s : s[i] = e

\* ------------------------------------------------------ phenotype compiler
\* gp.sympy_phenotype: the callable of a tree.  The callable is represented
\* by the tree it was compiled from; Apply calls it.
\* The compilation takes the individual only; the constants are arguments of
\* the callable.
sympy_phenotype(individual) ==
    IF \E i \in DOMAIN individual.tree : individual.tree[i] \notin PsetSymbols
    THEN [ok |-> FALSE, exc |-> "UnknownSymbol", f |-> <<>>]
    ELSE [ok |-> TRUE, exc |-> "", f |-> individual.tree]

\* The value of a unary and of a binary primitive.
Unary(s, a) ==
    CASE s = "Neg" -> FNeg(a)
      [] s = "sin" -> FSin(a)
      [] s = "cos" -> FCos(a)
      [] s = "exp" -> FExp(a)
      [] s = "log" -> FLog(a)

Binary(s, a, b) ==
    CASE s = "Add" -> FAdd(a, b)
      [] s = "Sub" -> FSub(a, b)
      [] s = "Mul" -> FMul(a, b)
      [] s = "Div" -> FDiv(a, b)

RECURSIVE EvalAt(_, _, _, _)
\* The value of the subtree of f that starts at node pos, and the position
\* after it: structural recursion over the prefix form.
EvalAt(f, pos, y, consts) ==
    LET s == f[pos] IN
    IF s \in Range(PsetArguments) THEN [v |-> y[IndexOf(PsetArguments, s)], next |-> pos + 1]
    ELSE IF s \in Range(PsetConstants) THEN [v |-> consts[IndexOf(PsetConstants, s)], next |-> pos + 1]
    ELSE IF PsetPrimitives[s] = 1
    THEN LET a == EvalAt(f, pos + 1, y, consts)
         IN [v |-> Unary(s, a.v), next |-> a.next]
    ELSE LET a == EvalAt(f, pos + 1, y, consts)
             b == EvalAt(f, a.next, y, consts)
         IN [v |-> Binary(s, a.v, b.v), next |-> b.next]

\* The call f(y_0, y_1, *consts) of the phenotype.
Apply(f, y, consts) == EvalAt(f, 1, y, consts).v

\* The callable takes one argument per argument and constant of the pset; a
\* call with another number of them is an error of the call, not of the
\* compilation.
Callable(consts) == Len(consts) = Len(PsetConstants)

\* --------------------------------------------------------- dynamical system
\* control_problem.anharmonic_oscillator: the state derivative
\* dy0 = y1, dy1 = -omega^2 y0 - c y1 + k a(y0, y1).
anharmonic_oscillator(f, params, y, consts) ==
    << y[2],
       FAdd(FSub(FNeg(FMul(FMul(params.omega, params.omega), y[1])),
                 FMul(params.c, y[2])),
            FMul(params.k, Apply(f, y, consts))) >>

\* ------------------------------------------------------------- integrator
RECURSIVE IntegrateFrom(_, _, _, _, _, _)
\* Fixed-step integration from grid point i on; ys is the trajectory so far.
IntegrateFrom(f, params, x, consts, i, ys) ==
    IF i = Len(x) THEN ys
    ELSE LET y == ys[i]
             dy == anharmonic_oscillator(f, params, y, consts)
             dx == FSub(x[i + 1], x[i])
         IN IntegrateFrom(f, params, x, consts, i + 1,
                Append(ys, << FAdd(y[1], FMul(dx, dy[1])), FAdd(y[2], FMul(dx, dy[2])) >>))

\* utils.numeric.integrate: the trajectory y[0, :], y[1, :] over the grid x.
\* IntegrationDiverged when a value before the final grid point is not finite.
\* The first call of the right-hand side with a wrong number of constants
\* ends the integration with the error of that call.
integrate(f, params, yinit, x, f_args) ==
    LET ys == IntegrateFrom(f, params, x, f_args, 1, <<yinit>>)
    IN IF ~Callable(f_args)
       THEN [ok |-> FALSE, exc |-> "ArityMismatch", y |-> <<>>]
       ELSE IF \E i \in 1..(Len(x) - 1) : ~isfinite(ys[i][1]) \/ ~isfinite(ys[i][2])
       THEN [ok |-> FALSE, exc |-> "IntegrationDiverged", y |-> <<>>]
       ELSE [ok |-> TRUE, exc |-> "",
             y |-> << [i \in 1..Len(x) |-> ys[i][1]], [i \in 1..Len(x) |-> ys[i][2]] >>]

\* ------------------------------------------------------- scalar utilities
RECURSIVE TrapzFrom(_, _, _)
TrapzFrom(y, x, i) ==
    IF i >= Len(x) THEN Zero
    ELSE FAdd(FDiv(FMul(FSub(x[i + 1], x[i]), FAdd(y[i + 1], y[i])), Two),
              TrapzFrom(y, x, i + 1))

\* scipy.trapz(y, x=x): the composite trapezoidal rule.
trapz(y, x) == TrapzFrom(y, x, 1)

Square(y) == [i \in DOMAIN y |-> FMul(y[i], y[i])]

\* utils.numeric.rmse of two scalars: sqrt((target - actual)^2).
numeric_rmse(target, actual) ==
    LET d == FSub(target, actual) IN FSqrt(FMul(d, d))

\* The value replace_nan puts in the place of a NaN.
NanSentinel == Fin(FloatMax)

\* assessment.replace_nan: each NaN element becomes the sentinel.
replace_nan(values) ==
    [i \in DOMAIN values |-> IF isnan(values[i]) THEN NanSentinel ELSE values[i]]

\* ------------------------------------------------------- AssessmentRunner
\* numpy.linspace(start, stop, num): num points, the spacing (stop - start) /
\* (num - 1), the last point stop itself.
linspace(start, stop, num) ==
    LET step == FDiv(FSub(stop, start), Fin((num - 1) * Unit))
    IN [i \in 1..num |->
          IF i = num THEN stop ELSE FAdd(start, FMul(Fin((i - 1) * Unit), step))]

\* AssessmentRunner.setup: the attributes of a freshly constructed runner.
setup ==
    LET nperiods == Fin(NPeriods * Unit)
        omega == One
    IN [nperiods |-> nperiods,
        x |-> linspace(Zero, FMul(FMul(nperiods, Two), Pi), GridN),
        yinit |-> <<Zero, One>>,
        params |-> [omega |-> One, c |-> ThreeEighths, k |-> Zero],
        omega |-> omega,
        ampl |-> One,
        NT |-> FDiv(FMul(FMul(nperiods, Two), Pi), omega)]

\* AssessmentRunner.trajectory: compile the phenotype, close the loop, integrate.
trajectory(self, individual, f_args) ==
    LET phen == sympy_phenotype(individual)
    IN IF ~phen.ok THEN [ok |-> FALSE, exc |-> phen.exc, y |-> <<>>]
       ELSE integrate(phen.f, self.params, self.yinit, self.x, f_args)


\* A variant of the residuals that returns one residual per grid point (the
\* alternative measure of the comment in rmse) instead of two scalars.
RawResidualsPerPoint(self, y) ==
    [i \in DOMAIN self.x |-> numeric_rmse(self.ampl, y[1][i])]

\* The residual pair before replace_nan: rmse_ampl, rmse_omega of a trajectory y.
RawResiduals(self, y) ==
    LET ampl_ == FSqrt(FDiv(FMul(trapz(Square(y[1]), self.x), Two), self.NT))
        omega_ == FSqrt(FDiv(FMul(trapz(Square(y[2]), self.x), Two),
                             FMul(self.NT, FMul(ampl_, ampl_))))
    IN << numeric_rmse(self.ampl, ampl_), numeric_rmse(self.omega, omega_) >>


\* A variant of rmse that returns the residual pair without replace_nan.
RmseOfRaw(self, y) == RawResiduals(self, y)

\* AssessmentRunner.rmse after the call of trajectory: what it returns for y.
RmseOf(self, y) == replace_nan(RawResiduals(self, y))

\* AssessmentRunner.rmse.
rmse(self, individual, f_args) ==
    LET t == trajectory(self, individual, f_args)
    IN IF ~t.ok THEN [ok |-> FALSE, exc |-> t.exc, val |-> <<>>]
       ELSE [ok |-> TRUE, exc |-> "", val |-> RmseOf(self, t.y)]

\* ----------------------------------------------------- constant optimizer
\* The initial guess of the optimizer: zeros, one per constant of the pset.
default_constants == [i \in 1..Len(PsetConstants) |-> Zero]

RECURSIVE SumSqFrom(_, _)
SumSqFrom(res, i) ==
    IF i > Len(res) THEN Zero ELSE FAdd(FMul(res[i], res[i]), SumSqFrom(res, i + 1))

\* The sum of squares of a residual vector, the quantity least squares minimizes.
SumSq(res) == SumSqFrom(res, 1)

AddStep(consts, step) == [i \in DOMAIN consts |-> FAdd(consts[i], step)]

\* The optimizer before its first residual evaluation.
OptInit ==
    [n |-> 0, p |-> default_constants, best |-> default_constants, bestRes |-> <<>>,
     step |-> One, status |-> "run"]

\* The optimizer after the residual function returned res for the trial st.p:
\* a descent that keeps the best iterate, reverses its step once when a trial
\* is worse, and stops on a zero or flat residual (converged) or when MaxIter
\* evaluations are spent (not converged).
OptAccept(st, res) ==
    LET n1 == st.n + 1
        better == st.n = 0 \/ FLess(SumSq(res), SumSq(st.bestRes))
        flat == st.n > 0 /\ res = st.bestRes
        best1 == IF better THEN st.p ELSE st.best
        bestRes1 == IF better THEN res ELSE st.bestRes
        step1 == IF better \/ flat THEN st.step ELSE FNeg(st.step)
        done == flat \/ SumSq(bestRes1) = Zero \/ (~better /\ FLess(st.step, Zero))
        status1 == IF done THEN "converged" ELSE IF n1 >= MaxIter THEN "maxfev" ELSE "run"
    IN [n |-> n1,
        p |-> IF status1 = "run" THEN AddStep(best1, step1) ELSE best1,
        best |-> best1, bestRes |-> bestRes1, step |-> step1, status |-> status1]

RECURSIVE OptRun(_, _, _)
OptRun(self, individual, st) ==
    IF st.status # "run"
    THEN [ok |-> TRUE, exc |-> "", popt |-> st.best, res |-> st.bestRes, status |-> st.status]
    ELSE LET r == rmse(self, individual, st.p)
         IN IF ~r.ok THEN [ok |-> FALSE, exc |-> r.exc, popt |-> <<>>, res |-> <<>>, status |-> "raised"]
            ELSE OptRun(self, individual, OptAccept(st, r.val))

\* assessment.const_opt_leastsq(self.rmse, individual): the optimized constants
\* and the residual vector at them; an exception of the residual function
\* passes through.
const_opt_leastsq(self, individual) == OptRun(self, individual, OptInit)


\* A variant of the fitness tuple with the two residuals exchanged.
FitnessTupleSwapped(rmse_opt, individual, popt) ==
    << rmse_opt[2], rmse_opt[1], len(individual), popt >>

\* The fitness tuple measure builds from the optimizer's result.
FitnessTuple(rmse_opt, individual, popt) ==
    << rmse_opt[1], rmse_opt[2], len(individual), popt >>

\* AssessmentRunner.measure.
measure(self, individual) ==
    LET o == const_opt_leastsq(self, individual)
    IN IF ~o.ok THEN [ok |-> FALSE, exc |-> o.exc, fitness |-> <<>>]
       ELSE IF Len(o.res) # 2 THEN [ok |-> FALSE, exc |-> "AssertionError", fitness |-> <<>>]
       ELSE [ok |-> TRUE, exc |-> "", fitness |-> FitnessTuple(o.res, individual, o.popt)]


\* A variant of assign_fitness that stores the ranking key as popt.
assign_fitness_key_as_popt(individual, fitness) ==
    [individual EXCEPT !.values = SubSeq(fitness, 1, Len(fitness) - 1),
                       !.popt = SubSeq(fitness, 1, Len(fitness) - 1),
                       !.hasPopt = TRUE]

\* AssessmentRunner.assign_fitness: the candidate after the write-back.
assign_fitness(individual, fitness) ==
    [individual EXCEPT !.values = SubSeq(fitness, 1, Len(fitness) - 1),
                       !.popt = fitness[Len(fitness)],
                       !.hasPopt = TRUE]

\* --------------------------------------------------------------- the run
\* Individual.from_string / a new individual: no fitness, no popt.
Individual(tree) == [tree |-> tree, values |-> <<>>, popt |-> <<>>, hasPopt |-> FALSE]

\* The candidates the search hands to the assessment, in dispatch order.
Population ==
    << Individual(<<"Add", "y_0", "Neg", "y_0">>),
       Individual(<<"Sub", "sin", "c", "y_1">>),
       Individual(<<"Add", "c", "y_1">>),
       Individual(<<"exp", "Mul", "c", "y_1">>),
       Individual(<<"Div", "y_1", "y_0">>),
       Individual(<<"Mul", "y_1", "z">>) >>

Workers == {"w1", "w2"}

\* The default of --params, and the values --params takes in the runs explored.
ParamsDefault == <<ThreeEighths, One>>
ArgParams == {ParamsDefault, <<ThreeEighths, Zero>>}

IdleWorker ==
    [pc |-> "idle", ind |-> 0, opt |-> OptInit, f_args |-> <<>>, phen |-> <<>>,
     y |-> <<>>, ret |-> <<>>, ncompile |-> 0, nintegrate |-> 0, exc |-> "",
     fitness |-> <<>>]

VARIABLES
    mainpc,       \* where main() is
    args,         \* the parsed command line: params, plot
    runner,       \* the attributes of app.assessment_runner
    pop,          \* the candidates
    next,         \* the number of candidates dispatched
    wk,           \* per worker: the evaluation it runs and its locals
    scoredWith,   \* per candidate: the params its scoring integrations read
    halloffame,   \* app.gp_runner.halloffame: the evaluated candidates, best first
    plotRunner,   \* the attributes of main's second AssessmentRunner
    plotList,     \* the individuals still to plot
    plotted       \* the trajectories plotted, with the params they used

vars == <<mainpc, args, runner, pop, next, wk, scoredWith, halloffame,
          plotRunner, plotList, plotted>>

evalVars == <<mainpc, args, runner, pop, next, scoredWith, halloffame>>
plotVars == <<plotRunner, plotList, plotted>>

\* After application.default_console_app constructed the runner (setup ran)
\* and before the command line is applied.
Init ==
    /\ mainpc = "start"
    /\ args = [params |-> ParamsDefault, plot |-> FALSE]
    /\ runner = setup
    /\ pop = Population
    /\ next = 0
    /\ wk = [w \in Workers |-> IdleWorker]
    /\ scoredWith = [i \in DOMAIN Population |-> {}]
    /\ halloffame = <<>>
    /\ plotRunner = [params |-> <<>>]
    /\ plotList = <<>>
    /\ plotted = <<>>

\* main: the command line is parsed, params['c'] and params['k'] are set
\* from args.params, and app.run() starts.
Configure(a, plot) ==
    /\ mainpc = "start"
    /\ args' = [params |-> a, plot |-> plot]
    /\ runner' = [runner EXCEPT !.params.c = a[1], !.params.k = a[2]]
    /\ mainpc' = "run"
    /\ UNCHANGED <<pop, next, wk, scoredWith, halloffame, plotVars>>

\* An exception that leaves measure() ends the worker's evaluation and,
\* uncaught, the run.
Raise(w, e, rec) ==
    /\ wk' = [wk EXCEPT ![w] = [rec EXCEPT !.pc = "raised", !.exc = e]]
    /\ mainpc' = "crashed"

\* measure(individual) is entered: const_opt_leastsq starts.
StartMeasure(w) ==
    /\ mainpc = "run"
    /\ wk[w].pc = "idle"
    /\ next < Len(pop)
    /\ next' = next + 1
    /\ wk' = [wk EXCEPT ![w] = [IdleWorker EXCEPT !.pc = "opt", !.ind = next + 1]]
    /\ UNCHANGED <<mainpc, args, runner, pop, scoredWith, halloffame, plotVars>>


\* A variant of rmse that is cached: once the residuals of a candidate were
\* computed, a later call returns them without compiling or integrating.
CallRmseCached(w) ==
    /\ mainpc = "run"
    /\ wk[w].pc = "opt"
    /\ wk[w].opt.status = "run"
    /\ IF wk[w].opt.n > 0
       THEN wk' = [wk EXCEPT ![w] = [@ EXCEPT !.pc = "returned", !.f_args = wk[w].opt.p,
                                            !.ncompile = 0, !.nintegrate = 0]]
       ELSE wk' = [wk EXCEPT ![w] = [@ EXCEPT !.pc = "compile", !.f_args = wk[w].opt.p,
                                            !.ncompile = 0, !.nintegrate = 0,
                                            !.phen = <<>>, !.y = <<>>, !.ret = <<>>]]
    /\ UNCHANGED <<evalVars, plotVars>>

\* The optimizer calls the residual function rmse(individual, *consts).
CallRmse(w) ==
    /\ mainpc = "run"
    /\ wk[w].pc = "opt"
    /\ wk[w].opt.status = "run"
    /\ wk' = [wk EXCEPT ![w] = [@ EXCEPT !.pc = "compile", !.f_args = wk[w].opt.p,
                                        !.ncompile = 0, !.nintegrate = 0,
                                        !.phen = <<>>, !.y = <<>>, !.ret = <<>>]]
    /\ UNCHANGED <<evalVars, plotVars>>


\* A variant of trajectory that catches the compilation error and goes on
\* with the zero actuator instead of letting the error propagate.
CompileSwallow(w) ==
    /\ mainpc = "run"
    /\ wk[w].pc = "compile"
    /\ LET phen == sympy_phenotype(pop[wk[w].ind])
           rec == [wk[w] EXCEPT !.ncompile = @ + 1]
       IN wk' = [wk EXCEPT ![w] = [rec EXCEPT !.pc = "integrate",
                    !.phen = IF phen.ok THEN phen.f ELSE <<"Add", "y_0", "Neg", "y_0">>]]
    /\ UNCHANGED <<mainpc, args, runner, pop, next, scoredWith, halloffame, plotVars>>

\* trajectory: gp.sympy_phenotype(individual).
Compile(w) ==
    /\ mainpc = "run"
    /\ wk[w].pc = "compile"
    /\ LET phen == sympy_phenotype(pop[wk[w].ind])
           rec == [wk[w] EXCEPT !.ncompile = @ + 1]
       IN IF phen.ok
          THEN /\ wk' = [wk EXCEPT ![w] = [rec EXCEPT !.pc = "integrate", !.phen = phen.f]]
               /\ UNCHANGED mainpc
          ELSE Raise(w, phen.exc, rec)
    /\ UNCHANGED <<args, runner, pop, next, scoredWith, halloffame, plotVars>>

\* trajectory: anharmonic_oscillator(phenotype, **self.params) and
\* utils.numeric.integrate(dy, yinit=self.yinit, x=self.x, f_args=f_args).
Integrate(w) ==
    /\ mainpc = "run"
    /\ wk[w].pc = "integrate"
    /\ LET t == integrate(wk[w].phen, runner.params, runner.yinit, runner.x, wk[w].f_args)
           rec == [wk[w] EXCEPT !.nintegrate = @ + 1]
       IN IF t.ok
          THEN /\ wk' = [wk EXCEPT ![w] = [rec EXCEPT !.pc = "residual", !.y = t.y]]
               /\ UNCHANGED mainpc
          ELSE Raise(w, t.exc, rec)
    /\ scoredWith' = [scoredWith EXCEPT ![wk[w].ind] = @ \cup {runner.params}]
    /\ UNCHANGED <<args, runner, pop, next, halloffame, plotVars>>


\* A variant of rmse that keeps the residuals of the last trajectory on the
\* runner (self.last) and returns what it finds there.
ResidualShared(w) ==
    /\ mainpc = "run"
    /\ wk[w].pc = "residual"
    /\ runner' = [x \in DOMAIN runner \cup {"last"} |->
                    IF x = "last" THEN RmseOf(runner, wk[w].y) ELSE runner[x]]
    /\ wk' = [wk EXCEPT ![w] = [@ EXCEPT !.pc = "returned",
                 !.ret = IF "last" \in DOMAIN runner THEN runner["last"]
                         ELSE RmseOf(runner, wk[w].y)]]
    /\ UNCHANGED <<mainpc, args, pop, next, scoredWith, halloffame, plotVars>>

\* rmse: the two residuals of the trajectory, through replace_nan; rmse returns.
Residual(w) ==
    /\ mainpc = "run"
    /\ wk[w].pc = "residual"
    /\ wk' = [wk EXCEPT ![w] = [@ EXCEPT !.pc = "returned", !.ret = RmseOf(runner, wk[w].y)]]
    /\ UNCHANGED <<evalVars, plotVars>>

\* The optimizer takes the residuals and chooses its next trial, or stops.
OptStep(w) ==
    /\ mainpc = "run"
    /\ wk[w].pc = "returned"
    /\ wk' = [wk EXCEPT ![w] = [@ EXCEPT !.pc = "opt", !.opt = OptAccept(wk[w].opt, wk[w].ret)]]
    /\ UNCHANGED <<evalVars, plotVars>>

\* const_opt_leastsq returns popt, rmse_opt; measure asserts and builds the
\* fitness tuple.
Measure(w) ==
    /\ mainpc = "run"
    /\ wk[w].pc = "opt"
    /\ wk[w].opt.status # "run"
    /\ LET popt == wk[w].opt.best
           rmse_opt == wk[w].opt.bestRes
       IN IF Len(rmse_opt) = 2
          THEN /\ wk' = [wk EXCEPT ![w] = [@ EXCEPT !.pc = "measured",
                           !.fitness = FitnessTuple(rmse_opt, pop[wk[w].ind], popt)]]
               /\ UNCHANGED mainpc
          ELSE Raise(w, "AssertionError", wk[w])
    /\ UNCHANGED <<args, runner, pop, next, scoredWith, halloffame, plotVars>>

\* assign_fitness(individual, fitness).
AssignFitness(w) ==
    /\ mainpc = "run"
    /\ wk[w].pc = "measured"
    /\ pop' = [pop EXCEPT ![wk[w].ind] = assign_fitness(@, wk[w].fitness)]
    /\ wk' = [wk EXCEPT ![w] = [@ EXCEPT !.pc = "idle"]]
    /\ UNCHANGED <<mainpc, args, runner, next, scoredWith, halloffame, plotVars>>

\* The candidates that carry an assigned fitness.
Evaluated(p) == {i \in DOMAIN p : p[i].hasPopt}

\* The ranking of two fitness values: amplitude error, then frequency error,
\* then size, smaller is better.
FitnessBetter(a, b) ==
    \/ FLess(a[1], b[1])
    \/ a[1] = b[1] /\ FLess(a[2], b[2])
    \/ a[1] = b[1] /\ a[2] = b[2] /\ a[3] < b[3]

\* i ranks before j: by fitness, equal fitness by the order of dispatch.
RanksBefore(p, i, j) ==
    \/ FitnessBetter(p[i].values, p[j].values)
    \/ ~FitnessBetter(p[j].values, p[i].values) /\ i < j

\* The evaluated candidates, best first.
Ranked(p) ==
    LET S == Evaluated(p)
    IN [k \in 1..Cardinality(S) |->
          CHOOSE i \in S : Cardinality({j \in S : RanksBefore(p, j, i)}) = k - 1]

\* The search updates its hall of fame from the candidates evaluated so far,
\* once the evaluations it dispatched are complete.
UpdateHallOfFame ==
    /\ mainpc = "run"
    /\ \A w \in Workers : wk[w].pc = "idle"
    /\ halloffame # Ranked(pop)
    /\ halloffame' = Ranked(pop)
    /\ UNCHANGED <<mainpc, args, runner, pop, next, wk, scoredWith, plotVars>>

\* app.run() returns: every worker is idle, the hall of fame is up to date.
FinishRun ==
    /\ mainpc = "run"
    /\ \A w \in Workers : wk[w].pc = "idle"
    /\ halloffame = Ranked(pop)
    /\ mainpc' = "report"
    /\ UNCHANGED <<args, runner, pop, next, wk, scoredWith, halloffame, plotVars>>

\* n of main: the number of best results plotted.
PlotN == 2

Min(a, b) == IF a < b THEN a ELSE b
Reversed(s) == [i \in 1..Len(s) |-> s[Len(s) + 1 - i]]

\* main: the hall of fame is logged; without --plot main returns.  With it, a
\* second AssessmentRunner is constructed and the individuals to plot are
\* cons(uncontrolled, reversed(halloffame[:n])).
Report ==
    /\ mainpc = "report"
    /\ IF ~args.plot
       THEN /\ mainpc' = "exit"
            /\ UNCHANGED plotVars
       ELSE /\ mainpc' = "plot"
            /\ plotRunner' = setup
            /\ plotList' = <<[src |-> 0, ind |-> Individual(<<"Add", "y_0", "Neg", "y_0">>)]>>
                   \o [i \in 1..Min(PlotN, Len(halloffame)) |->
                         LET h == Reversed(SubSeq(halloffame, 1, Min(PlotN, Len(halloffame))))[i]
                         IN [src |-> h, ind |-> pop[h]]]
            /\ UNCHANGED plotted
    /\ UNCHANGED <<args, runner, pop, next, wk, scoredWith, halloffame>>

\* main: popt = getattr(ind, 'popt', zeros); y = assessment_runner.trajectory(ind, *popt).
PlotTrajectory ==
    /\ mainpc = "plot"
    /\ plotList # <<>>
    /\ LET e == Head(plotList)
           popt == IF e.ind.hasPopt THEN e.ind.popt
                   ELSE [i \in 1..Len(PsetConstants) |-> Zero]
           t == trajectory(plotRunner, e.ind, popt)
       IN IF t.ok
          THEN /\ plotted' = Append(plotted, [src |-> e.src, params |-> plotRunner.params, y |-> t.y])
               /\ plotList' = Tail(plotList)
               /\ UNCHANGED mainpc
          ELSE /\ mainpc' = "crashed"
               /\ UNCHANGED <<plotList, plotted>>
    /\ UNCHANGED <<args, runner, pop, next, wk, scoredWith, halloffame, plotRunner>>

\* main: plt.show().
PlotShow ==
    /\ mainpc = "plot"
    /\ plotList = <<>>
    /\ mainpc' = "shown"
    /\ UNCHANGED <<args, runner, pop, next, wk, scoredWith, halloffame, plotVars>>

Next ==
    \/ \E a \in ArgParams, plot \in BOOLEAN : Configure(a, plot)
    \/ \E w \in Workers : StartMeasure(w)
    \/ \E w \in Workers : CallRmse(w)
    \/ \E w \in Workers : Compile(w)
    \/ \E w \in Workers : Integrate(w)
    \/ \E w \in Workers : Residual(w)
    \/ \E w \in Workers : OptStep(w)
    \/ \E w \in Workers : Measure(w)
    \/ \E w \in Workers : AssignFitness(w)
    \/ UpdateHallOfFame
    \/ FinishRun
    \/ Report
    \/ PlotTrajectory
    \/ PlotShow

Spec == Init /\ [][Next]_vars

\* ----------------------------------------------------------------- claims
Assessed == Evaluated(pop)
CompileErrors == {"ArityMismatch", "UnknownSymbol"}
\* The runner as main configures it from the command line.
ConfiguredRunner ==
    [setup EXCEPT !.params.c = args.params[1], !.params.k = args.params[2]]

\* C1: the amplitude error and the frequency error that measure() puts in the
\* fitness tuple are finite (neither NaN nor +/-Inf), for every candidate.
C1_FitnessFinite ==
    \A w \in Workers :
        wk[w].pc = "measured" =>
            isfinite(wk[w].fitness[1]) /\ isfinite(wk[w].fitness[2])

\* C2: when the integration of a candidate diverges, no exception leaves
\* measure(): the candidate's evaluation is not ended by IntegrationDiverged
\* and the run goes on.
C2_DivergenceStaysInside ==
    \A w \in Workers : ~(wk[w].pc = "raised" /\ wk[w].exc = "IntegrationDiverged")

\* C3: a candidate whose phenotype compilation fails ends its evaluation at
\* the compilation, with the error leaving measure() (the run ends), without
\* an integration or a residual, and with its fitness values and popt as
\* they were; it never reaches assign_fitness.
C3_CompileErrorPropagates ==
    \A w \in Workers :
        LET i == wk[w].ind IN
        (i # 0 /\ wk[w].ncompile > 0
              /\ ~sympy_phenotype(pop[i]).ok) =>
            /\ wk[w].pc = "raised"
            /\ wk[w].exc \in CompileErrors
            /\ mainpc = "crashed"
            /\ wk[w].nintegrate = 0
            /\ wk[w].opt.n = 0
            /\ wk[w].fitness = <<>>
            /\ pop[i] = Population[i]
            /\ i \notin Assessed

\* An UnknownSymbol left measure() at the first compilation, the candidate
\* untouched.
C3_Witness ==
    \E w \in Workers :
        /\ wk[w].pc = "raised"
        /\ wk[w].exc = "UnknownSymbol"
        /\ wk[w].ncompile = 1
        /\ pop[wk[w].ind] = Population[wk[w].ind]

\* C4: the optimized constants measure() returns as the last element of the
\* fitness tuple, and popt once assigned, have exactly as many elements as
\* the primitive set has constants, whatever the optimizer's status.
C4_PoptLength ==
    /\ \A w \in Workers :
          wk[w].pc = "measured" => Len(wk[w].fitness[Len(wk[w].fitness)]) = Len(PsetConstants)
    /\ \A i \in DOMAIN pop :
          pop[i].hasPopt => Len(pop[i].popt) = Len(PsetConstants)

\* A candidate the optimizer did not converge on has its popt assigned.
C4_Witness ==
    \E w \in Workers :
        /\ wk[w].pc = "idle"
        /\ wk[w].ind \in Assessed
        /\ wk[w].opt.status = "maxfev"
        /\ Len(pop[wk[w].ind].popt) = Len(PsetConstants)

\* C5: after measure() and assign_fitness() the candidate's fitness values
\* are the triple (amplitude error, frequency error, node count), popt is the
\* optimized constants and is not among the values, and the tree is as it
\* was; a candidate not assessed is unchanged.
C5_AssignedFitness ==
    /\ \A w \in Workers :
          (wk[w].pc = "idle" /\ wk[w].ind # 0) =>
              LET i == wk[w].ind
                  r == rmse(runner, Population[i], wk[w].opt.best)
              IN /\ r.ok
                 /\ pop[i].values = << r.val[1], r.val[2], Len(Population[i].tree) >>
                 /\ pop[i].values = << wk[w].opt.bestRes[1], wk[w].opt.bestRes[2],
                                       Len(Population[i].tree) >>
                 /\ pop[i].popt = wk[w].opt.best
                 /\ pop[i].tree = Population[i].tree
    /\ \A i \in DOMAIN pop : i \notin Assessed => pop[i] = Population[i]

\* A candidate is assessed with two different residuals and its node count.
C5_Witness ==
    \E w \in Workers :
        /\ wk[w].pc = "idle"
        /\ wk[w].ind \in Assessed
        /\ Len(pop[wk[w].ind].values) = 3
        /\ pop[wk[w].ind].values[1] # pop[wk[w].ind].values[2]
        /\ pop[wk[w].ind].values[3] = Len(Population[wk[w].ind].tree)

\* C6: evaluating candidates never changes the runner's attributes, and
\* under every interleaving of the workers each assessed candidate has the
\* fitness and popt that measure() gives it when evaluated alone.
C6_IndependentEvaluations ==
    /\ mainpc # "start" => runner = ConfiguredRunner
    /\ \A i \in Assessed :
          LET m == measure(ConfiguredRunner, Population[i])
          IN /\ m.ok
             /\ pop[i].values = SubSeq(m.fitness, 1, 3)
             /\ pop[i].popt = m.fitness[4]

\* The second candidate dispatched is assessed while the first, dispatched
\* before it, is inside a later call of rmse(): the two evaluations overlapped.
C6_Witness ==
    /\ 2 \in Assessed
    /\ 1 \notin Assessed
    /\ \E w \in Workers : wk[w].ind = 1 /\ wk[w].pc = "residual" /\ wk[w].opt.n > 0

FloatSamples == {NaN, PInf, NInf, Zero, One, Fin(-Unit), NanSentinel}
\* r is v with each NaN replaced by the sentinel and nothing else changed.
NanReplaced(v, r) ==
    /\ Len(r) = Len(v)
    /\ \A j \in DOMAIN v : r[j] = IF isnan(v[j]) THEN NanSentinel ELSE v[j]

\* C7: what rmse() returns is its residual pair with every NaN replaced by
\* the sentinel, every other element unchanged, order and length kept; and
\* replace_nan is idempotent, on the returned pair and on every pair of
\* sample values.
C7_ReplaceNan ==
    /\ \A w \in Workers :
          wk[w].pc = "returned" =>
              /\ NanReplaced(RawResiduals(runner, wk[w].y), wk[w].ret)
              /\ replace_nan(wk[w].ret) = wk[w].ret
    /\ \A a \in FloatSamples, b \in FloatSamples :
          /\ NanReplaced(<<a, b>>, replace_nan(<<a, b>>))
          /\ replace_nan(replace_nan(<<a, b>>)) = replace_nan(<<a, b>>)

\* rmse() returned a pair whose frequency residual was NaN and was replaced.
C7_Witness ==
    \E w \in Workers :
        /\ wk[w].pc = "returned"
        /\ isnan(RawResiduals(runner, wk[w].y)[2])
        /\ ~isnan(RawResiduals(runner, wk[w].y)[1])
        /\ wk[w].ret[2] = NanSentinel

\* C8 as stated: every call of rmse(), returned or ended by an exception,
\* has performed exactly one compilation and exactly one integration.
C8_EveryCallIntegrates ==
    \A w \in Workers :
        wk[w].pc \in {"returned", "raised"} =>
            wk[w].ncompile = 1 /\ wk[w].nintegrate = 1

\* C8 amended: every call of rmse() performs exactly one phenotype
\* compilation and, unless the compilation raises, exactly one integration;
\* a call that returns has computed both residuals from the trajectory of
\* that integration, which is the trajectory of the call's own constants.
C8_OnePerCall ==
    \A w \in Workers :
        /\ wk[w].pc = "integrate" => wk[w].ncompile = 1 /\ wk[w].nintegrate = 0
        /\ wk[w].pc = "residual" => wk[w].ncompile = 1 /\ wk[w].nintegrate = 1
        /\ wk[w].pc = "returned" =>
              /\ wk[w].ncompile = 1 /\ wk[w].nintegrate = 1
              /\ wk[w].y = trajectory(runner, pop[wk[w].ind], wk[w].f_args).y
              /\ wk[w].ret = RmseOf(runner, wk[w].y)
        /\ (wk[w].pc = "raised" /\ ~sympy_phenotype(pop[wk[w].ind]).ok) =>
              wk[w].ncompile = 1 /\ wk[w].nintegrate = 0
        /\ (wk[w].pc = "raised" /\ sympy_phenotype(pop[wk[w].ind]).ok) =>
              wk[w].ncompile = 1 /\ wk[w].nintegrate = 1

\* The second call of rmse() within one measure() has returned.
C8_Witness ==
    \E w \in Workers :
        /\ wk[w].pc = "returned"
        /\ wk[w].opt.n = 1
        /\ wk[w].ncompile = 1
        /\ wk[w].nintegrate = 1

\* C9: every hall-of-fame candidate main() re-simulates for plotting is
\* re-simulated under the params it was scored under.
C9_PlotUsesScoringParams ==
    \A j \in DOMAIN plotted :
        plotted[j].src # 0 => scoredWith[plotted[j].src] = {plotted[j].params}

\* C10: the assertion of measure() never fails: every residual vector rmse()
\* returns and every residual vector the optimizer returns has two elements.
C10_AssertionHolds ==
    \A w \in Workers :
        /\ wk[w].exc # "AssertionError"
        /\ wk[w].pc = "returned" => Len(wk[w].ret) = 2
        /\ (wk[w].pc = "opt" /\ wk[w].opt.status # "run") => Len(wk[w].opt.bestRes) = 2

\* measure() passed its assertion for a candidate with a NaN residual, and
\* for one the optimizer did not converge on.
C10_Witness ==
    \E w \in Workers, v \in Workers :
        /\ wk[w].pc = "measured"
        /\ wk[w].fitness[2] = NanSentinel
        /\ wk[v].ind # 0
        /\ wk[v].opt.status = "maxfev"
        /\ wk[v].pc \in {"measured", "idle"}
====
